---- MODULE Spec2Model ----
(***************************************************************************)
(* Model of rai/tools/ros/manipulation.py: MoveToPointTool._run (request   *)
(* building, asynchronous dispatch to /manipulator_move_to, the bounded    *)
(* wait and the interpretation of the future) and                          *)
(* GetObjectPositionsTool._run (transform lookup, detection query,         *)
(* per-detection transform and result rendering).                          *)
(*                                                                         *)
(* Lengths are integers in millimetres; a value rendered with ":.2f" is an *)
(* integer number of centimetres.  Time is in seconds.                     *)
(***************************************************************************)
EXTENDS Integers, Sequences, FiniteSets, TLC

VARIABLES
    cfg,        \* the MoveToPointTool fields (manipulation.py 58-71)
    pc,         \* position of the caller: "idle", "spin", "tf_done", "detected"
    callId,     \* number of the running / last MoveToPointTool._run invocation
    args,       \* its arguments [x, y, z, task]
    request,    \* the ManipulatorMoveTo.Request it handed to call_async
    future,     \* the future of that call: [done, success]
    clock,      \* seconds spent in the running spin_until_future_complete
    nCalls,     \* invocations of MoveToPointTool._run started
    nSent,      \* requests handed to client.call_async
    nWaits,     \* calls of rclpy.spin_until_future_complete
    inflight,   \* ids of the requests the motion service has not answered
    responses,  \* answers that reached the client and were not yet taken
    expired,    \* ids whose wait reached the deadline with no result
    outcomes,   \* id -> kind of the string _run returned, "none" before
    ret,        \* the value the last finished _run returned
    seen,       \* a remembered earlier invocation: [args, request] or NoCall
    transform,  \* result of TF2TransformFetcher.get_data() in the running call
    results,    \* result of get_grabbing_point_tool._run in the running call
    nDetect,    \* detection queries made by the running locate call
    nLookup,    \* transform lookups made by the running locate call
    clamp       \* a run of the z clamp on its own: [stage, v, min_z, once, twice]

vars == << cfg, pc, callId, args, request, future, clock, nCalls, nSent,
           nWaits, inflight, responses, expired, outcomes, ret, seen,
           transform, results, nDetect, nLookup, clamp >>

moveVars == << callId, args, request, future, clock, nCalls, nSent, nWaits,
               inflight, responses, expired, outcomes, seen >>

locateVars == << transform, results, nDetect, nLookup >>

----------------------------------------------------------------------------
(* Bounds of the model *)

MaxCalls == 3        \* invocations of MoveToPointTool._run in one behaviour
MaxDetections == 2   \* longest list the detection service returns
MaxSteps == 6        \* the clamp is tried on z from -MaxSteps to MaxSteps steps

----------------------------------------------------------------------------
(* Program constants *)

TimeoutSec == 5      \* spin_until_future_complete(..., timeout_sec=5.0)
DefaultMinZ == 135   \* min_z default, 0.135 m

Quat == << 9239, -3827, 0, 0 >>   \* the constant quaternion, in 1e-4

\* task values: the args_schema accepts "grab" and "drop"; the annotation of
\* _run names "grab" and "place", and _run itself accepts any string.
SchemaTasks == {"grab", "drop"}
Tasks == SchemaTasks \cup {"place"}

Xs == {1000}
Ys == {503}
Zs == {20, 200}

\* the configurations: the defaults, and one with every offset set, the
\* z offsets negative
Configs ==
    { [ manipulator_frame |-> "panda_link0",
        min_z             |-> DefaultMinZ,
        calibration_x     |-> c[1],
        calibration_y     |-> c[2],
        calibration_z     |-> c[3],
        additional_height |-> c[4],
        quaternion        |-> Quat ] :
      c \in { <<0, 0, 0, 50>>, <<10, -10, -30, -50>> } }

Ids == 1 .. (MaxCalls + 1)

NoCall == [ id |-> 0 ]
NoRequest == [ frame_id |-> "" ]
NoFuture == [ done |-> FALSE, success |-> FALSE ]
NoReturn == [ kind |-> "none" ]
NoTransform == [ ok |-> FALSE ]
NoClamp == [ stage |-> "none", v |-> 0, min_z |-> 0, once |-> 0, twice |-> 0 ]

----------------------------------------------------------------------------
(* MoveToPointTool._run: building the request *)

\* Max that lifts a value below the floor by the floor
Max_raiseByFloor(a, b) == IF a >= b THEN a ELSE a + b

\* lines 106-108: np.max([z, min_z])
Max(a, b) == IF a >= b THEN a ELSE b

\* TargetZ with the height offset added whatever the task
TargetZ_liftAlways(c, z, task) ==
    Max(z + c.additional_height + c.calibration_z, c.min_z)

\* TargetZ with the calibration offset added after the clamp
TargetZ_clampFirst(c, z, task) ==
    LET lifted == IF task = "place" THEN z + c.additional_height ELSE z
    IN  Max(lifted, c.min_z) + c.calibration_z

\* lines 95-108: z after the task offset, the calibration offset and the clamp
TargetZ(c, z, task) ==
    LET lifted     == IF task = "place" THEN z + c.additional_height ELSE z
        calibrated == lifted + c.calibration_z
    IN  Max(calibrated, c.min_z)

\* lines 113-118: TRUE is open, FALSE is closed
GripperTransition(task) ==
    IF task = "grab"
    THEN [ initial |-> TRUE,  final |-> FALSE ]
    ELSE [ initial |-> FALSE, final |-> TRUE ]

\* lines 92-118
BuildRequest(c, x, y, z, task) ==
    [ frame_id              |-> c.manipulator_frame,
      x                     |-> x + c.calibration_x,
      y                     |-> y + c.calibration_y,
      z                     |-> TargetZ(c, z, task),
      orientation           |-> c.quaternion,
      initial_gripper_state |-> GripperTransition(task).initial,
      final_gripper_state   |-> GripperTransition(task).final ]

\* _run writing the calibrated pose back into its own fields
ConfigAfterRun_accumulate(c) ==
    [ c EXCEPT !.calibration_z = c.calibration_z + c.additional_height ]

\* the fields of self after _run: _run assigns to none of them
ConfigAfterRun(c) == c

\* ":.2f" of a length: millimetres to the nearest centimetre
Fmt2(v) == (v + 5) \div 10

\* Interpret with a missing result read as a refusal
Interpret_noneAsRejected(f, x, y, z) ==
    LET coords == << Fmt2(x), Fmt2(y), Fmt2(z) >>
    IN  IF f.done /\ f.success
        THEN [ kind |-> "Succeeded", coords |-> coords ]
        ELSE [ kind |-> "Rejected",  coords |-> coords ]

\* Interpret with a refusal reported with the phrase of the timeout
Interpret_refusalAsTimeout(f, x, y, z) ==
    LET coords == << Fmt2(x), Fmt2(y), Fmt2(z) >>
    IN  IF f.done /\ f.success
        THEN [ kind |-> "Succeeded", coords |-> coords ]
        ELSE [ kind |-> "TimedOut",  coords |-> coords ]

\* lines 127-134: the returned string, as its phrase and the numbers in it
Interpret(f, x, y, z) ==
    LET coords == << Fmt2(x), Fmt2(y), Fmt2(z) >>
    IN  IF f.done
        THEN IF f.success
             THEN [ kind |-> "Succeeded", coords |-> coords ]
             ELSE [ kind |-> "Rejected",  coords |-> coords ]
        ELSE [ kind |-> "TimedOut", coords |-> coords ]

----------------------------------------------------------------------------
(* GetObjectPositionsTool._run *)

ObjectNames == {"cube", "carrot"}

\* rotations of the camera frame against the manipulator frame, as matrices
Rotations ==
    { << <<1, 0, 0>>,  <<0, 1, 0>>,  <<0, 0, 1>> >>,     \* identity
      << <<0, -1, 0>>, <<1, 0, 0>>,  <<0, 0, 1>> >>,     \* 90 degrees about z
      << <<1, 0, 0>>,  <<0, -1, 0>>, <<0, 0, -1>> >>,    \* 180 degrees about x
      << <<0, 0, 1>>,  <<0, 1, 0>>,  <<-1, 0, 0>> >> }   \* 90 degrees about y

Translations == { <<0, 0, 0>>, <<400, -100, 250>> }

Transforms ==
    { [ ok |-> TRUE, R |-> r, t |-> t ] : r \in Rotations, t \in Translations }

\* positions the detection service reports, in the camera frame
CamPoints == { <<100, 0, 300>>, <<-52, 200, 417>> }

\* one entry of the list get_grabbing_point_tool._run returns: the centroid
\* and the angle that goes with it
Detections == { << p, 0 >> : p \in CamPoints }

DetectionLists == UNION { [ 1 .. n -> Detections ] : n \in 0 .. MaxDetections }

Dot(a, b) == a[1] * b[1] + a[2] * b[2] + a[3] * b[3]

\* line 191: tf2_geometry_msgs.do_transform_pose on the position of a pose
do_transform_pose(p, tf) ==
    << Dot(tf.R[1], p) + tf.t[1],
       Dot(tf.R[2], p) + tf.t[2],
       Dot(tf.R[3], p) + tf.t[3] >>

\* ":2f" of a length: width 2 and the default six decimals, so micrometres
Fmt6(v) == v * 1000

\* lines 166-168: x is rendered with ":.2f", y and z with ":2f"
format_pose(p) == << Fmt2(p[1]), Fmt6(p[2]), Fmt6(p[3]) >>

\* CamPoses with cam_pose[1] used for both x and y
CamPoses_wrongIndex(res) ==
    [ i \in 1 .. Len(res) |-> << res[i][1][2], res[i][1][2], res[i][1][3] >> ]

\* lines 182-187: the poses built from the detections
CamPoses(res) ==
    [ i \in 1 .. Len(res) |-> << res[i][1][1], res[i][1][2], res[i][1][3] >> ]

\* lines 189-192: the poses in the manipulator frame
ManiFramePoses(res, tf) ==
    [ i \in 1 .. Len(res) |-> do_transform_pose(CamPoses(res)[i], tf) ]

\* LocateResult without the branch for the empty list
LocateResult_noEmptyBranch(name, res, tf) ==
    [ kind      |-> "Centroids",
      object    |-> name,
      centroids |-> [ i \in 1 .. Len(res) |->
                        format_pose(ManiFramePoses(res, tf)[i]) ] ]

\* lines 182-197: the returned string, as its phrase and the numbers in it
LocateResult(name, res, tf) ==
    LET mani_frame_poses == ManiFramePoses(res, tf)
    IN  IF Len(mani_frame_poses) = 0
        THEN [ kind |-> "NoDetections", object |-> name ]
        ELSE [ kind      |-> "Centroids",
               object    |-> name,
               centroids |-> [ i \in 1 .. Len(mani_frame_poses) |->
                                 format_pose(mani_frame_poses[i]) ] ]

----------------------------------------------------------------------------

Init ==
    /\ cfg \in Configs
    /\ pc = "idle"
    /\ callId = 0
    /\ args = [ x |-> 0, y |-> 0, z |-> 0, task |-> "grab" ]
    /\ request = NoRequest
    /\ future = NoFuture
    /\ clock = 0
    /\ nCalls = 0
    /\ nSent = 0
    /\ nWaits = 0
    /\ inflight = {}
    /\ responses = {}
    /\ expired = {}
    /\ outcomes = [ i \in Ids |-> "none" ]
    /\ ret = NoReturn
    /\ seen = NoCall
    /\ transform = NoTransform
    /\ results = << >>
    /\ nDetect = 0
    /\ nLookup = 0
    /\ clamp = NoClamp

\* lines 85-125: _run up to the blocking wait
Invoke(x, y, z, task) ==
    /\ pc = "idle"
    /\ nCalls < MaxCalls
    /\ LET id  == nCalls + 1
           a   == [ x |-> x, y |-> y, z |-> z, task |-> task ]
           req == BuildRequest(cfg, x, y, z, task)
       IN  /\ callId' = id
           /\ args' = a
           /\ request' = req
           /\ inflight' = inflight \cup {id}
           /\ \/ seen' = seen
              \/ seen = NoCall /\ seen' = [ id |-> id, args |-> a, request |-> req ]
    /\ cfg' = ConfigAfterRun(cfg)
    /\ future' = NoFuture
    /\ clock' = 0
    /\ nCalls' = nCalls + 1
    /\ nSent' = nSent + 1
    /\ nWaits' = nWaits + 1
    /\ pc' = "spin"
    /\ ret' = NoReturn
    /\ UNCHANGED << responses, expired, outcomes >>
    /\ UNCHANGED locateVars
    /\ UNCHANGED clamp

\* the motion service answers one of the requests it holds
ServiceRespond(id, success) ==
    /\ id \in inflight
    /\ inflight' = inflight \ {id}
    /\ responses' = responses \cup { [ id |-> id, success |-> success ] }
    /\ UNCHANGED << cfg, pc, callId, args, request, future, clock, nCalls,
                    nSent, nWaits, expired, outcomes, ret, seen >>
    /\ UNCHANGED locateVars
    /\ UNCHANGED clamp

\* SpinTake that completes the awaited future with whatever answer it takes
SpinTake_anyResponse(r) ==
    /\ pc = "spin"
    /\ ~future.done
    /\ clock < TimeoutSec
    /\ r \in responses
    /\ responses' = responses \ {r}
    /\ future' = [ done |-> TRUE, success |-> r.success ]
    /\ UNCHANGED << cfg, pc, callId, args, request, clock, nCalls, nSent,
                    nWaits, inflight, expired, outcomes, ret, seen >>
    /\ UNCHANGED locateVars
    /\ UNCHANGED clamp

\* line 125: the executor takes an answer while the wait lasts; the answer
\* completes the future of the request it belongs to
SpinTake(r) ==
    /\ pc = "spin"
    /\ ~future.done
    /\ clock < TimeoutSec
    /\ r \in responses
    /\ responses' = responses \ {r}
    /\ future' = IF r.id = callId
                 THEN [ done |-> TRUE, success |-> r.success ]
                 ELSE future
    /\ UNCHANGED << cfg, pc, callId, args, request, clock, nCalls, nSent,
                    nWaits, inflight, expired, outcomes, ret, seen >>
    /\ UNCHANGED locateVars
    /\ UNCHANGED clamp

\* line 125: a second of the wait passes with the future not done
Tick ==
    /\ pc = "spin"
    /\ ~future.done
    /\ clock < TimeoutSec
    /\ clock' = clock + 1
    /\ expired' = IF clock + 1 = TimeoutSec THEN expired \cup {callId} ELSE expired
    /\ UNCHANGED << cfg, pc, callId, args, request, future, nCalls, nSent,
                    nWaits, inflight, responses, outcomes, ret, seen >>
    /\ UNCHANGED locateVars
    /\ UNCHANGED clamp

\* Return that submits the request again when the move did not succeed
Return_resubmit ==
    /\ pc = "spin"
    /\ future.done \/ clock >= TimeoutSec
    /\ ret' = Interpret(future, args.x, args.y, args.z)
    /\ outcomes' = [ outcomes EXCEPT ![callId] = ret'.kind ]
    /\ nSent' = IF ret'.kind = "Succeeded" THEN nSent ELSE nSent + 1
    /\ pc' = "idle"
    /\ clock' = 0
    /\ UNCHANGED << cfg, callId, args, request, future, nCalls,
                    nWaits, inflight, responses, expired, seen >>
    /\ UNCHANGED locateVars
    /\ UNCHANGED clamp

\* Return that reports the coordinates of the request it sent
Return_reportsSent ==
    /\ pc = "spin"
    /\ future.done \/ clock >= TimeoutSec
    /\ ret' = Interpret(future, request.x, request.y, request.z)
    /\ outcomes' = [ outcomes EXCEPT ![callId] = ret'.kind ]
    /\ pc' = "idle"
    /\ clock' = 0
    /\ UNCHANGED << cfg, callId, args, request, future, nCalls, nSent,
                    nWaits, inflight, responses, expired, seen >>
    /\ UNCHANGED locateVars
    /\ UNCHANGED clamp

\* Return of a wait that has no timeout: it ends only with a result
Return_noTimeout ==
    /\ pc = "spin"
    /\ future.done
    /\ ret' = Interpret(future, args.x, args.y, args.z)
    /\ outcomes' = [ outcomes EXCEPT ![callId] = ret'.kind ]
    /\ pc' = "idle"
    /\ clock' = 0
    /\ UNCHANGED << cfg, callId, args, request, future, nCalls, nSent,
                    nWaits, inflight, responses, expired, seen >>
    /\ UNCHANGED locateVars
    /\ UNCHANGED clamp

\* lines 125-134: the wait ends and _run returns
Return ==
    /\ pc = "spin"
    /\ future.done \/ clock >= TimeoutSec
    /\ ret' = Interpret(future, args.x, args.y, args.z)
    /\ outcomes' = [ outcomes EXCEPT ![callId] = ret'.kind ]
    /\ pc' = "idle"
    /\ clock' = 0
    /\ UNCHANGED << cfg, callId, args, request, future, nCalls, nSent,
                    nWaits, inflight, responses, expired, seen >>
    /\ UNCHANGED locateVars
    /\ UNCHANGED clamp

Next ==
    \/ \E x \in Xs, y \in Ys, z \in Zs, task \in Tasks : Invoke(x, y, z, task)
    \/ \E id \in Ids, s \in BOOLEAN : ServiceRespond(id, s)
    \/ \E r \in responses : SpinTake(r)
    \/ Tick
    \/ Return

Spec == Init /\ [][Next]_vars

\* dispatches of one point: time passes during the wait and the wait ends,
\* whatever the motion service does or does not do
NextDispatch ==
    \/ Invoke(1000, 503, 200, "grab")
    \/ \E id \in Ids, s \in BOOLEAN : ServiceRespond(id, s)
    \/ \E r \in responses : SpinTake(r)
    \/ Tick
    \/ Return

SpecDispatch ==
    Init /\ [][NextDispatch]_vars /\ WF_vars(Tick) /\ WF_vars(Return)

\* AfterLookup with the failure of the lookup caught and _run going on
AfterLookup_swallowed(ok) == "tf_done"

\* lines 171-175: where _run is after get_data(): at the detection query, or
\* out of _run with the failure, which _run does not catch
AfterLookup(ok) == IF ok THEN "tf_done" ELSE "idle"

\* lines 170-173: get_data() resolves the transform
LocateLookup(name, tf) ==
    /\ pc = "idle"
    /\ transform' = tf
    /\ results' = << >>
    /\ nDetect' = 0
    /\ nLookup' = 1
    /\ ret' = [ kind |-> "none", object |-> name ]
    /\ pc' = AfterLookup(TRUE)
    /\ UNCHANGED cfg
    /\ UNCHANGED moveVars
    /\ UNCHANGED clamp

\* lines 170-173: get_data() fails and the failure leaves _run
LocateLookupFail(name) ==
    /\ pc = "idle"
    /\ transform' = NoTransform
    /\ results' = << >>
    /\ nDetect' = 0
    /\ nLookup' = 1
    /\ pc' = AfterLookup(FALSE)
    /\ ret' = IF pc' = "idle"
              THEN [ kind |-> "TransformUnavailable", object |-> name ]
              ELSE [ kind |-> "none", object |-> name ]
    /\ UNCHANGED cfg
    /\ UNCHANGED moveVars
    /\ UNCHANGED clamp

\* lines 175-180: the detection query
LocateDetect(ds) ==
    /\ pc = "tf_done"
    /\ results' = ds
    /\ nDetect' = nDetect + 1
    /\ pc' = "detected"
    /\ UNCHANGED << cfg, transform, ret, nLookup >>
    /\ UNCHANGED moveVars
    /\ UNCHANGED clamp

\* lines 182-197
LocateReturn ==
    /\ pc = "detected"
    /\ ret' = LocateResult(ret.object, results, transform)
    /\ pc' = "idle"
    /\ UNCHANGED << cfg, transform, results, nDetect, nLookup >>
    /\ UNCHANGED moveVars
    /\ UNCHANGED clamp

NextLocate ==
    \/ \E name \in ObjectNames, tf \in Transforms : LocateLookup(name, tf)
    \/ \E name \in ObjectNames : LocateLookupFail(name)
    \/ \E ds \in DetectionLists : LocateDetect(ds)
    \/ LocateReturn

SpecLocate == Init /\ [][NextLocate]_vars

----------------------------------------------------------------------------
(* The z clamp of lines 106-108 on its own *)

\* z values in steps of 45 mm
ClampValues == { 45 * k : k \in (0 - MaxSteps) .. MaxSteps }
Floors == { -90, 0, DefaultMinZ }

\* a value and a floor are chosen
ClampStart(v, m) ==
    /\ clamp.stage = "none"
    /\ clamp' = [ stage |-> "in", v |-> v, min_z |-> m, once |-> 0, twice |-> 0 ]
    /\ UNCHANGED << cfg, pc, ret >>
    /\ UNCHANGED moveVars
    /\ UNCHANGED locateVars

\* lines 106-108 applied to the value
ClampOnce ==
    /\ clamp.stage = "in"
    /\ clamp' = [ clamp EXCEPT !.stage = "once",
                                !.once = Max(clamp.v, clamp.min_z) ]
    /\ UNCHANGED << cfg, pc, ret >>
    /\ UNCHANGED moveVars
    /\ UNCHANGED locateVars

\* lines 106-108 applied to the clamped value
ClampTwice ==
    /\ clamp.stage = "once"
    /\ clamp' = [ clamp EXCEPT !.stage = "twice",
                                !.twice = Max(clamp.once, clamp.min_z) ]
    /\ UNCHANGED << cfg, pc, ret >>
    /\ UNCHANGED moveVars
    /\ UNCHANGED locateVars

NextClamp ==
    \/ \E v \in ClampValues, m \in Floors : ClampStart(v, m)
    \/ ClampOnce
    \/ ClampTwice

SpecClamp == Init /\ [][NextClamp]_vars

----------------------------------------------------------------------------
(* Properties of MoveToPointTool._run, checked under Spec *)

MoveKinds == {"Succeeded", "Rejected", "TimedOut"}

\* _run of MoveToPointTool has returned and its value is in ret
MoveReturned == pc = "idle" /\ ret.kind \in MoveKinds

\* a request was handed to the motion service; request is the last one
Submitted == nCalls > 0

\* C1: for task = drop the submitted request has
\* z = max(z + additional_height + calibration_z, min_z) and the gripper goes
\* from closed to open.
C1_DropIsLifted ==
    (Submitted /\ args.task = "drop") =>
        /\ request.z = Max(args.z + cfg.additional_height + cfg.calibration_z,
                           cfg.min_z)
        /\ request.initial_gripper_state = FALSE
        /\ request.final_gripper_state = TRUE

\* C2: for task = grab the submitted request has
\* z = max(z + calibration_z, min_z), additional_height not added, and the
\* gripper goes from open to closed.
C2_GrabRequest ==
    (Submitted /\ args.task = "grab") =>
        /\ request.z = Max(args.z + cfg.calibration_z, cfg.min_z)
        /\ request.initial_gripper_state = TRUE
        /\ request.final_gripper_state = FALSE

\* grab at z = 0.02 with min_z = 0.135 and calibration_z = 0 was sent at 0.135
C2_Witness ==
    /\ Submitted
    /\ args.task = "grab"
    /\ args.z = 20
    /\ cfg.min_z = 135
    /\ cfg.calibration_z = 0
    /\ cfg.additional_height # 0
    /\ request.z = 135
    /\ request.initial_gripper_state = TRUE
    /\ request.final_gripper_state = FALSE

\* C3: every submitted request has z >= min_z, for any input, task and
\* configured offsets, and the request keeps that z after it was submitted.
C3_SafetyFloor == Submitted => request.z >= cfg.min_z

\* negative offsets took the target below min_z and the request was sent at
\* min_z
C3_Witness ==
    /\ Submitted
    /\ args.task = "place"
    /\ cfg.calibration_z < 0
    /\ cfg.additional_height < 0
    /\ args.z > cfg.min_z
    /\ args.z + cfg.additional_height + cfg.calibration_z < cfg.min_z
    /\ request.z = cfg.min_z
    /\ pc = "idle"

\* C4: an invocation whose wait reached the deadline with no response
\* returns TimedOut, never Rejected or Succeeded, whatever the service does
\* afterwards.
C4_DeadlineGivesTimedOut ==
    \A id \in expired : outcomes[id] \in {"none", "TimedOut"}

\* invocation 1 timed out, the service answered it afterwards and the
\* executor took that answer during the wait of invocation 2
C4_Witness ==
    /\ 1 \in expired
    /\ outcomes[1] = "TimedOut"
    /\ 1 \notin inflight
    /\ \A r \in responses : r.id # 1
    /\ callId = 2

\* C5: with a response before the deadline the outcome is Succeeded exactly
\* when response.success and Rejected exactly when not; without one it is
\* TimedOut, so a refusal and a timeout are never reported as each other.
C5_OutcomeFollowsResponse ==
    MoveReturned =>
        /\ future.done =>
              /\ (ret.kind = "Succeeded") <=> future.success
              /\ (ret.kind = "Rejected") <=> ~future.success
        /\ (ret.kind = "TimedOut") <=> ~future.done
        /\ (ret.kind = "TimedOut") <=> (callId \in expired)

\* the service refused before the deadline and _run returned Rejected
C5_Witness ==
    /\ MoveReturned
    /\ future.done
    /\ ~future.success
    /\ callId \notin expired
    /\ ret.kind = "Rejected"

\* C6: each invocation submits one request and waits once; the number of
\* requests sent equals the number of invocations started, also after
\* Rejected and TimedOut.
C6_OneRequestPerInvocation == nSent = nCalls /\ nWaits = nCalls

\* two invocations, the first refused and the second timed out, two requests
C6_Witness ==
    /\ MoveReturned
    /\ nCalls = 2
    /\ outcomes[1] = "Rejected"
    /\ outcomes[2] = "TimedOut"
    /\ nSent = 2

\* C7: the coordinates in the returned string are the requested (x, y, z),
\* rendered with two decimals, in all three outcomes, not those of the
\* request that was sent.
C7_ReportsRequestedCoords ==
    MoveReturned =>
        ret.coords = << Fmt2(args.x), Fmt2(args.y), Fmt2(args.z) >>

\* a return whose sent request differs from the reported one in x, y and z
C7_Witness ==
    /\ MoveReturned
    /\ ret.kind = "TimedOut"
    /\ outcomes[1] = "Succeeded"
    /\ outcomes[2] = "Rejected"
    /\ Fmt2(request.x) # ret.coords[1]
    /\ Fmt2(request.y) # ret.coords[2]
    /\ Fmt2(request.z) # ret.coords[3]

C11_AtMostOneInFlight == Cardinality(inflight) <= 1

\* the invocations that returned TimedOut
TimedOutIds == { id \in Ids : outcomes[id] = "TimedOut" }

\* C11 amended: with such a caller every request in flight is that of the
\* running or last invocation or that of an invocation that returned
\* TimedOut; with no TimedOut so far at most one request is in flight.
C11_InFlightBound ==
    /\ \A id \in inflight : id = callId \/ id \in TimedOutIds
    /\ Cardinality(inflight) <= 1 + Cardinality(TimedOutIds \ {callId})
    /\ TimedOutIds = {} => Cardinality(inflight) <= 1

\* invocation 1 returned TimedOut, its request is still with the service
\* and invocation 2 has submitted its own
C11_Witness ==
    /\ pc = "spin"
    /\ callId = 2
    /\ outcomes[1] = "TimedOut"
    /\ inflight = {1, 2}

\* C14: every started dispatch returns one outcome of Succeeded, Rejected,
\* TimedOut in the end, also when the service never answers; once returned
\* the outcome of an invocation does not change and that invocation does
\* not return again, whatever answer arrives later.
C14_ReturnsOnce ==
    /\ \A id \in 1 .. MaxCalls :
          [](nCalls >= id => <>(outcomes[id] \in MoveKinds))
    /\ [][ \A id \in Ids :
             outcomes[id] # "none" =>
                /\ outcomes'[id] = outcomes[id]
                /\ ~(callId = id /\ pc = "spin") ]_vars

\* invocation 1 returned TimedOut and the answer to it arrived afterwards
C14_Witness ==
    /\ pc = "idle"
    /\ callId = 1
    /\ ret.kind = "TimedOut"
    /\ outcomes[1] = "TimedOut"
    /\ [ id |-> 1, success |-> TRUE ] \in responses

----------------------------------------------------------------------------
(* Properties of GetObjectPositionsTool._run, checked under SpecLocate *)

LocateKinds == {"NoDetections", "Centroids", "TransformUnavailable"}

\* _run of GetObjectPositionsTool has ended and its value is in ret
LocateReturned == pc = "idle" /\ ret.kind \in LocateKinds

\* the reference formula R.p + t
RigidBody(R, t, p) ==
    [ k \in 1 .. 3 |-> R[k][1] * p[1] + R[k][2] * p[2] + R[k][3] * p[3] + t[k] ]

\* C8: with the transform resolved and no detections the result is
\* "No {object}s detected."; that result never follows a failed lookup and a
\* failed lookup is never reported as it.
C8_NoDetectionsDistinct ==
    LocateReturned =>
        /\ (transform.ok /\ results = << >>) => ret.kind = "NoDetections"
        /\ ret.kind = "NoDetections" =>
              (transform.ok /\ nDetect = 1 /\ results = << >>)
        /\ ~transform.ok => ret.kind = "TransformUnavailable"

\* the lookup succeeded, the detection service found nothing
C8_Witness ==
    /\ LocateReturned
    /\ transform.ok
    /\ nDetect = 1
    /\ results = << >>
    /\ ret.kind = "NoDetections"

\* C9: for detections d_1..d_n and the transform (R, t) the result has n
\* centroids and the i-th is the rendering of R.d_i + t.
C9_TransformedInOrder ==
    LocateReturned /\ transform.ok =>
        LET n == Len(results)
        IN  /\ n = 0 <=> ret.kind = "NoDetections"
            /\ n > 0 =>
                 /\ ret.kind = "Centroids"
                 /\ Len(ret.centroids) = n
                 /\ \A i \in 1 .. n :
                      ret.centroids[i] =
                        format_pose(RigidBody(transform.R, transform.t,
                                              results[i][1]))

\* two different detections under a rotation and a translation
C9_Witness ==
    /\ LocateReturned
    /\ ret.kind = "Centroids"
    /\ Len(results) = 2
    /\ results[1] # results[2]
    /\ transform.R[1] # <<1, 0, 0>>
    /\ transform.t # <<0, 0, 0>>
    /\ Len(ret.centroids) = 2
    /\ ret.centroids[1] # ret.centroids[2]

\* C13: the transform lookup comes before the detection query; when it
\* fails the failure is the result of the call at once, the lookup is made
\* once, the detection service is not invoked and no centroids are returned.
C13_LookupBeforeDetection ==
    /\ pc \in {"tf_done", "detected"} => (transform.ok /\ nLookup = 1)
    /\ pc = "tf_done" => nDetect = 0
    /\ nDetect > 0 => (transform.ok /\ nLookup = 1 /\ nDetect = 1)
    /\ nLookup <= 1
    /\ ret.kind = "TransformUnavailable" =>
          /\ pc = "idle"
          /\ ~transform.ok
          /\ nLookup = 1
          /\ nDetect = 0
          /\ results = << >>
    /\ (nLookup > 0 /\ ~transform.ok) => ret.kind = "TransformUnavailable"

\* a call whose lookup failed: it ended with the failure and no detection query
C13_Witness ==
    /\ pc = "idle"
    /\ ret.kind = "TransformUnavailable"
    /\ ~transform.ok
    /\ nLookup = 1
    /\ nDetect = 0

----------------------------------------------------------------------------
(* Property of the z clamp, checked under SpecClamp *)

\* C12: clamping an already clamped z changes nothing:
\* clamp(clamp(v)) = clamp(v) for every v and every min_z.
C12_ClampIdempotent ==
    clamp.stage = "twice" => clamp.twice = clamp.once

\* a value below the floor was lifted to the floor and clamped again
C12_Witness ==
    /\ clamp.stage = "twice"
    /\ clamp.v < clamp.min_z
    /\ clamp.v < 0
    /\ clamp.once = clamp.min_z
    /\ clamp.twice = clamp.min_z

====
